---- MODULE Spec2Model ----
(***************************************************************************)
(* A model of `stack` (src/main.rs): a tool that keeps a stack of          *)
(* dependent git branches.  Each stacked branch records its parent in the  *)
(* git configuration (branch.<name>.stack-parent).  The model covers the   *)
(* ParentLink store, the child map built from it, the depth-first rebase   *)
(* propagation of `restack` and the upward walk, plan and execution of     *)
(* `land`.  Every git invocation that can fail in the program can fail in  *)
(* the model.                                                              *)
(***************************************************************************)
EXTENDS Integers, Sequences, FiniteSets, TLC

\* ------------------------------------------------------------------------
\* Bounds of the model
\* ------------------------------------------------------------------------

\* number of runs of `stack new`, and of branch names besides trunk
MaxNew == 3

\* cap on the depth of the recursion of recursive_rebase (reached only when
\* the ParentLinks hold a cycle through the start branch)
MaxDepth == 5

\* cap on the length of the stack collected by the upward walk of cmd_land
\* (reached only when the parent chain enters a cycle)
MaxPlan == 5

\* ------------------------------------------------------------------------
\* Names
\* ------------------------------------------------------------------------

\* the trunk sentinel, the literal "main" of cmd_land
trunk == "main"

BranchPool == <<"A", "B", "C", "D", "E", "F", "G", "H">>

Names == {BranchPool[i] : i \in 1..MaxNew}

\* the Err(_) of a `git config branch.<b>.stack-parent` that finds no value
NoLink == "<none>"

VARIABLES
    links,          \* the ParentLink store, in the order git enumerates it:
                    \* a sequence of <<child, parent>>, one entry per child
    exists,         \* the local branches (git rev-parse --verify succeeds)
    merged,         \* the local branches that are ancestors of origin/main
    landed,         \* the branches whose squash commit is on local main (a
                    \* new branch of the same name is another branch)
    head,           \* the branch that is checked out
    pc,             \* where the running command stands; "idle" between commands
    cmd,            \* the running command
    result,         \* what the command returned: "ok", "err" or "none"
    ops,            \* the git operations the running command has issued
    start_branch,   \* cmd_restack: the branch to return to
    frames,         \* recursive_rebase: the call stack, innermost last
    stack,          \* cmd_land: the branches collected, then the plan
    branch,         \* cmd_land: the position of the upward walk
    idx,            \* cmd_land: the position in the plan of the merge loop
    confirm,        \* cmd_land: the answer read at the prompt
    root,           \* cmd_log: the position of the search for the root
    out,            \* cmd_log: the lines printed, one per branch
    based,          \* the branches whose tip sits on the current tip of their parent
    moved,          \* the branches whose tip the running command has changed
    prev,           \* the restack that succeeded just before, if one did
    created         \* the number of runs of `stack new` so far

vars == <<links, exists, merged, landed, head, pc, cmd, result, ops,
          start_branch, frames, stack, branch, idx, confirm, root, out,
          based, moved, prev, created>>

repo == <<links, exists, merged, landed, head>>

locals == <<start_branch, frames, stack, branch, idx>>

other_locals == <<confirm, root, out>>

tips == <<based, moved, prev>>

\* no restack has just succeeded
NoRun == [start |-> NoLink, moved |-> FALSE]

\* ------------------------------------------------------------------------
\* Sequences
\* ------------------------------------------------------------------------

Reverse(s) == [i \in 1..Len(s) |-> s[Len(s) + 1 - i]]

Range(s) == {s[i] : i \in DOMAIN s}

\* ------------------------------------------------------------------------
\* The ParentLink store
\* ------------------------------------------------------------------------

HasLink(ls, b) == \E i \in DOMAIN ls : ls[i][1] = b

\* git config branch.<b>.stack-parent : the value, or NoLink for Err(_)
get_parent(ls, b) ==
    IF HasLink(ls, b)
    THEN ls[CHOOSE i \in DOMAIN ls : ls[i][1] = b][2]
    ELSE NoLink

\* git config branch.<child>.stack-parent <parent> : an existing entry keeps
\* its place in the file, a new one goes to the end
set_parent(ls, child, parent) ==
    IF HasLink(ls, child)
    THEN [i \in DOMAIN ls |-> IF ls[i][1] = child THEN <<child, parent>> ELSE ls[i]]
    ELSE Append(ls, <<child, parent>>)

\* git config --unset branch.<b>.stack-parent
unset_parent(ls, b) == SelectSeq(ls, LAMBDA e : e[1] # b)

\* ------------------------------------------------------------------------
\* The child map of get_child_map
\* ------------------------------------------------------------------------

\* a child map whose Vec grows at the front
children_of_Prepend(ls, p) ==
    LET F[i \in 0..Len(ls)] ==
            IF i = 0 THEN <<>>
            ELSE IF ls[i][2] = p THEN <<ls[i][1]>> \o F[i - 1] ELSE F[i - 1]
    IN  F[Len(ls)]

\* the children pushed under parent p, in the order of the lines
children_of(ls, p) ==
    LET F[i \in 0..Len(ls)] ==
            IF i = 0 THEN <<>>
            ELSE IF ls[i][2] = p THEN Append(F[i - 1], ls[i][1]) ELSE F[i - 1]
    IN  F[Len(ls)]

\* the HashMap parent -> Vec<child>; a branch without children is no key
get_child_map(ls) ==
    [p \in {ls[i][2] : i \in DOMAIN ls} |-> children_of(ls, p)]

\* ------------------------------------------------------------------------
\* The git operations a command issues, as recorded in ops
\* ------------------------------------------------------------------------

Op(name, b, onto, ok) == [op |-> name, b |-> b, onto |-> onto, ok |-> ok]

\* ------------------------------------------------------------------------
\* Initial state: a repository with trunk alone, checked out, no ParentLink
\* ------------------------------------------------------------------------

Init ==
    /\ links = <<>>
    /\ exists = {trunk}
    /\ merged = {}
    /\ landed = {}
    /\ head = trunk
    /\ pc = "idle"
    /\ cmd = "none"
    /\ result = "none"
    /\ ops = <<>>
    /\ start_branch = trunk
    /\ frames = <<>>
    /\ stack = <<>>
    /\ branch = trunk
    /\ idx = 1
    /\ confirm = ""
    /\ root = trunk
    /\ out = <<>>
    /\ based = {}
    /\ moved = {}
    /\ prev = NoRun
    /\ created = 0

\* ------------------------------------------------------------------------
\* stack new <name>
\* ------------------------------------------------------------------------

Mentioned == exists \cup {links[i][1] : i \in DOMAIN links}
                    \cup {links[i][2] : i \in DOMAIN links}

\* The names `stack new` is tried with: every name the repository still
\* mentions but that is no branch (a deleted parent, a stale link), and of
\* the names it does not mention the first one, the others being the same
\* up to renaming.
NewNames ==
    LET stale == (Mentioned \cap Names) \ exists
        fresh == {i \in 1..MaxNew : BranchPool[i] \notin Mentioned}
    IN  stale \cup {BranchPool[i] : i \in {j \in fresh : \A k \in fresh : j <= k}}

\* git checkout -b name, then git config branch.<name>.stack-parent <parent>.
\* The checkout fails when the branch exists (nothing changes then); when
\* the config write fails the branch is created without a ParentLink.
cmd_new ==
    /\ pc = "idle"
    /\ created < MaxNew
    /\ created' = created + 1
    /\ UNCHANGED <<other_locals, moved>>
    /\ prev' = NoRun
    /\ \E name \in NewNames, config_ok \in BOOLEAN :
        LET parent == head IN
        /\ based' = IF config_ok
                     THEN (based \ Range(children_of(links, name))) \cup {name}
                     ELSE based \ (Range(children_of(links, name)) \cup {name})
        /\ exists' = exists \cup {name}
        /\ merged' = merged \ {name}
        /\ head' = name
        /\ links' = IF config_ok THEN set_parent(links, name, parent) ELSE links
        /\ landed' = landed \ {name}
    /\ UNCHANGED <<pc, cmd, result, ops, locals>>

\* ------------------------------------------------------------------------
\* stack switch <name>
\* ------------------------------------------------------------------------

\* git checkout name; a failed checkout leaves the working branch as it was
cmd_switch ==
    /\ UNCHANGED <<created, other_locals, based, moved>>
    /\ prev' = NoRun
    /\ pc = "idle"
    /\ \E name \in exists \ {head} : head' = name
    /\ UNCHANGED <<links, exists, merged, landed, pc, cmd, result, ops, locals>>

\* ------------------------------------------------------------------------
\* The remote: a branch becomes an ancestor of origin/main (its pull request
\* is merged), which is_merged_into_main sees after its fetch
\* ------------------------------------------------------------------------

RemoteMerge ==
    /\ UNCHANGED <<created, other_locals, based, moved>>
    /\ prev' = NoRun
    /\ pc = "idle"
    /\ \E b \in (exists \cap Names) \ merged : merged' = merged \cup {b}
    /\ UNCHANGED <<links, exists, landed, head, pc, cmd, result, ops, locals>>

\* ------------------------------------------------------------------------
\* stack restack
\* ------------------------------------------------------------------------

\* cmd_restack up to the call of recursive_rebase(&start_branch, &child_map)
RestackStart ==
    /\ UNCHANGED <<created, other_locals, tips>>
    /\ pc = "idle"
    /\ pc' = "rebase"
    /\ cmd' = "restack"
    /\ result' = "none"
    /\ ops' = <<>>
    /\ start_branch' = head
    /\ frames' = <<[cur |-> head, i |-> 1]>>
    /\ UNCHANGED <<repo, stack, branch, idx>>

\* cmd_amend: git commit --amend --no-edit gives the current branch a new
\* tip, which its children do not sit on any more; then cmd_restack
AmendStart ==
    /\ UNCHANGED <<created, other_locals, prev>>
    /\ pc = "idle"
    /\ cmd' = "amend"
    /\ \E ok \in BOOLEAN :
        /\ ops' = <<Op("amend", head, "", ok)>>
        /\ pc' = IF ok THEN "rebase" ELSE "exit"
        /\ result' = IF ok THEN "none" ELSE "err"
        /\ start_branch' = IF ok THEN head ELSE start_branch
        /\ frames' = IF ok THEN <<[cur |-> head, i |-> 1]>> ELSE frames
        /\ based' = IF ok THEN based \ Range(children_of(links, head)) ELSE based
        /\ moved' = IF ok THEN {head} ELSE moved
    /\ UNCHANGED <<repo, stack, branch, idx>>

\* the innermost call of recursive_rebase
Top == frames[Len(frames)]

\* the children its loop runs over; None of child_map.get is no children
TopChildren ==
    LET child_map == get_child_map(links)
    IN  IF Top.cur \in DOMAIN child_map THEN child_map[Top.cur] ELSE <<>>

\* what git can answer to the checkout and the rebase of child: a branch
\* that does not exist cannot be checked out, and the rebase of a branch
\* that sits on the tip of its parent replays nothing and cannot stop
RebaseOutcomes(child) ==
    {"checkout_fail"}
    \cup (IF child \in exists THEN {"ok"} ELSE {})
    \cup (IF child \in exists /\ child \notin based THEN {"rebase_fail"} ELSE {})

\* a variant of rebase_child that goes on with the next sibling after a
\* failed checkout or rebase
rebase_child_KeepGoing(child, outcome) ==
    LET advanced == [frames EXCEPT ![Len(frames)].i = Top.i + 1]
    IN  [ops |-> IF outcome = "checkout_fail"
                 THEN Append(ops, Op("checkout", child, "", FALSE))
                 ELSE ops \o <<Op("checkout", child, "", TRUE),
                               Op("rebase", child, Top.cur, outcome = "ok")>>,
         head |-> IF outcome = "checkout_fail" THEN head ELSE child,
         frames |-> IF outcome = "ok"
                    THEN Append(advanced, [cur |-> child, i |-> 1])
                    ELSE advanced,
         pc |-> "rebase",
         result |-> "none"]

\* a variant of rebase_child that does not recurse into the child
rebase_child_NoRecurse(child, outcome) ==
    LET advanced == [frames EXCEPT ![Len(frames)].i = Top.i + 1]
    IN  [ops |-> IF outcome = "checkout_fail"
                 THEN Append(ops, Op("checkout", child, "", FALSE))
                 ELSE ops \o <<Op("checkout", child, "", TRUE),
                               Op("rebase", child, Top.cur, outcome = "ok")>>,
         head |-> IF outcome = "checkout_fail" THEN head ELSE child,
         frames |-> IF outcome = "ok" THEN advanced ELSE frames,
         pc |-> IF outcome = "ok" THEN "rebase" ELSE "exit",
         result |-> IF outcome = "ok" THEN "none" ELSE "err"]

\* a variant of rebase_child that checks the parent out again when the
\* checkout or the rebase of the child fails
rebase_child_BackToParent(child, outcome) ==
    LET advanced == [frames EXCEPT ![Len(frames)].i = Top.i + 1]
    IN  [ops |-> IF outcome = "checkout_fail"
                 THEN Append(ops, Op("checkout", child, "", FALSE))
                 ELSE ops \o <<Op("checkout", child, "", TRUE),
                               Op("rebase", child, Top.cur, outcome = "ok")>>,
         head |-> IF outcome = "ok" THEN child ELSE Top.cur,
         frames |-> IF outcome = "ok"
                    THEN Append(advanced, [cur |-> child, i |-> 1])
                    ELSE frames,
         pc |-> IF outcome = "ok" THEN "rebase" ELSE "exit",
         result |-> IF outcome = "ok" THEN "none" ELSE "err"]

\* a variant of rebase_child whose loop does not move on to the next child
\* when the call for the child returns
rebase_child_Again(child, outcome) ==
    [ops |-> IF outcome = "checkout_fail"
             THEN Append(ops, Op("checkout", child, "", FALSE))
             ELSE ops \o <<Op("checkout", child, "", TRUE),
                           Op("rebase", child, Top.cur, outcome = "ok")>>,
     head |-> IF outcome = "checkout_fail" THEN head ELSE child,
     frames |-> IF outcome = "ok"
                THEN Append(frames, [cur |-> child, i |-> 1])
                ELSE frames,
     pc |-> IF outcome = "ok" THEN "rebase" ELSE "exit",
     result |-> IF outcome = "ok" THEN "none" ELSE "err"]

\* one pass of the loop of recursive_rebase for child: checkout child, rebase
\* it onto current, recurse into child; `?` returns the first error to
\* cmd_restack, which returns it to main.  A failed checkout leaves the
\* working branch as it was, a failed rebase leaves the repository on child.
rebase_child(child, outcome) ==
    LET advanced == [frames EXCEPT ![Len(frames)].i = Top.i + 1]
    IN  [ops |-> IF outcome = "checkout_fail"
                 THEN Append(ops, Op("checkout", child, "", FALSE))
                 ELSE ops \o <<Op("checkout", child, "", TRUE),
                               Op("rebase", child, Top.cur, outcome = "ok")>>,
         head |-> IF outcome = "checkout_fail" THEN head ELSE child,
         frames |-> IF outcome = "ok"
                    THEN Append(advanced, [cur |-> child, i |-> 1])
                    ELSE frames,
         pc |-> IF outcome = "ok" THEN "rebase" ELSE "exit",
         result |-> IF outcome = "ok" THEN "none" ELSE "err"]

\* a rebase that gives the child a new tip even when it sits on the tip of
\* its parent
rebased_NewTip(child, outcome) ==
    IF outcome = "ok"
    THEN [based |-> (based \ Range(children_of(links, child))) \cup {child},
          moved |-> moved \cup {child}]
    ELSE [based |-> based, moved |-> moved]

\* the tips after git rebase of child onto its parent: a child that sits on
\* the tip of its parent keeps its tip; another one gets a new tip, which
\* its own children do not sit on any more
rebased(child, outcome) ==
    IF outcome = "ok" /\ child \notin based
    THEN [based |-> (based \ Range(children_of(links, child))) \cup {child},
          moved |-> moved \cup {child}]
    ELSE [based |-> based, moved |-> moved]

\* the innermost call of recursive_rebase takes its next child
RebaseChild ==
    /\ UNCHANGED <<created, other_locals, prev>>
    /\ pc = "rebase"
    /\ frames # <<>>
    /\ Top.i <= Len(TopChildren)
    /\ Len(frames) < MaxDepth
    /\ LET child == TopChildren[Top.i] IN
       \E outcome \in RebaseOutcomes(child) :
        LET next == rebase_child(child, outcome) IN
        /\ ops' = next.ops
        /\ head' = next.head
        /\ frames' = next.frames
        /\ pc' = next.pc
        /\ result' = next.result
        /\ based' = rebased(child, outcome).based
        /\ moved' = rebased(child, outcome).moved
    /\ UNCHANGED <<links, exists, merged, landed, cmd, start_branch, stack, branch, idx>>

\* the loop of the innermost call is over: Ok(()) to its caller, which goes
\* on with its next child; the outermost call returns to cmd_restack
RebaseReturn ==
    /\ UNCHANGED <<created, other_locals, tips>>
    /\ pc = "rebase"
    /\ frames # <<>>
    /\ Top.i > Len(TopChildren)
    /\ frames' = SubSeq(frames, 1, Len(frames) - 1)
    /\ pc' = IF Len(frames) = 1 THEN "restore" ELSE "rebase"
    /\ UNCHANGED <<repo, cmd, result, ops, start_branch, stack, branch, idx>>

\* a variant of RestackRestore that returns without the checkout
RestackRestore_NoCheckout ==
    /\ UNCHANGED <<created, other_locals, tips>>
    /\ pc = "restore"
    /\ pc' = "exit"
    /\ result' = "ok"
    /\ UNCHANGED <<repo, cmd, ops, locals>>

\* git checkout start_branch, the last step of cmd_restack
RestackRestore ==
    /\ UNCHANGED <<created, other_locals, tips>>
    /\ pc = "restore"
    /\ \E ok \in BOOLEAN :
        /\ ops' = Append(ops, Op("checkout", start_branch, "", ok))
        /\ head' = IF ok THEN start_branch ELSE head
        /\ result' = IF ok THEN "ok" ELSE "err"
    /\ pc' = "exit"
    /\ UNCHANGED <<links, exists, merged, landed, cmd, locals>>

\* ------------------------------------------------------------------------
\* The end of a command: main reports the error, the process exits and its
\* memory is gone
\* ------------------------------------------------------------------------

Exit ==
    /\ UNCHANGED <<created, based>>
    /\ moved' = {}
    /\ prev' = IF cmd = "restack" /\ result = "ok"
               THEN [start |-> start_branch, moved |-> moved # {}]
               ELSE NoRun
    /\ pc = "exit"
    /\ pc' = "idle"
    /\ cmd' = "none"
    /\ result' = "none"
    /\ ops' = <<>>
    /\ start_branch' = trunk
    /\ frames' = <<>>
    /\ stack' = <<>>
    /\ branch' = trunk
    /\ idx' = 1
    /\ confirm' = ""
    /\ root' = trunk
    /\ out' = <<>>
    /\ UNCHANGED repo

\* ------------------------------------------------------------------------
\* stack land: the plan
\* ------------------------------------------------------------------------

\* cmd_land up to its loop: the stack starts with the current branch
LandStart ==
    /\ UNCHANGED <<created, other_locals, tips>>
    /\ pc = "idle"
    /\ pc' = "walk"
    /\ cmd' = "land"
    /\ result' = "none"
    /\ ops' = <<>>
    /\ stack' = <<head>>
    /\ branch' = head
    /\ UNCHANGED <<repo, start_branch, frames, idx>>

branch_exists(name) == name \in exists

is_merged_into_main(name) == name \in merged

\* a variant of plan_order that keeps the order of the walk
plan_order_AsCollected(s) == s

\* stack.reverse()
plan_order(s) == Reverse(s)

\* a variant of land_walk that stops at a parent that is merged or missing
land_walk_StopAtMerged(st, br) ==
    LET parent == get_parent(links, br)
    IN  IF parent = NoLink \/ parent = trunk
        THEN [stack |-> plan_order(st), branch |-> br, pc |-> "confirm"]
        ELSE IF branch_exists(parent) /\ ~is_merged_into_main(parent)
        THEN [stack |-> Append(st, parent), branch |-> parent, pc |-> "walk"]
        ELSE [stack |-> plan_order(st), branch |-> br, pc |-> "confirm"]

\* a variant of land_walk that moves up only to a parent it has pushed
land_walk_StayOnSkip(st, br) ==
    LET parent == get_parent(links, br)
    IN  IF parent = NoLink \/ parent = trunk
        THEN [stack |-> plan_order(st), branch |-> br, pc |-> "confirm"]
        ELSE IF branch_exists(parent) /\ ~is_merged_into_main(parent)
        THEN [stack |-> Append(st, parent), branch |-> parent, pc |-> "walk"]
        ELSE [stack |-> st, branch |-> br, pc |-> "walk"]

\* one pass of the loop of cmd_land from stack st and position br: the loop
\* ends at a branch without ParentLink or whose parent is trunk, and the
\* stack is reversed then; else the parent is pushed if it exists and is not
\* merged, and the walk goes on from the parent either way
land_walk(st, br) ==
    LET parent == get_parent(links, br)
    IN  IF parent = NoLink \/ parent = trunk
        THEN [stack |-> plan_order(st), branch |-> br, pc |-> "confirm"]
        ELSE [stack |-> IF branch_exists(parent) /\ ~is_merged_into_main(parent)
                        THEN Append(st, parent)
                        ELSE st,
              branch |-> parent,
              pc |-> "walk"]

LandWalk ==
    /\ UNCHANGED <<created, other_locals, tips>>
    /\ pc = "walk"
    /\ LET next == land_walk(stack, branch)
       IN  /\ Len(next.stack) <= MaxPlan
           /\ stack' = next.stack
           /\ branch' = next.branch
           /\ pc' = next.pc
    /\ UNCHANGED <<repo, cmd, result, ops, start_branch, frames, idx>>

to_lowercase(s) == IF s = "Y" THEN "y" ELSE s

\* what the operator may type at "Proceed? [y/N] "
Answers == {"y", "Y", "n", ""}

\* a variant of land_confirm that goes on unless the answer is a no
land_confirm_YesByDefault(typed) ==
    IF stack = <<>>
    THEN [confirm |-> confirm, pc |-> "exit", result |-> "err"]
    ELSE IF to_lowercase(typed) = "n"
    THEN [confirm |-> typed, pc |-> "exit", result |-> "ok"]
    ELSE [confirm |-> typed, pc |-> "sync", result |-> "none"]

\* the plan is complete: Err("Nothing to land") for an empty one, else the
\* prompt; any answer but y/Y ends the command with Ok(())
land_confirm(typed) ==
    IF stack = <<>>
    THEN [confirm |-> confirm, pc |-> "exit", result |-> "err"]
    ELSE IF to_lowercase(typed) # "y"
    THEN [confirm |-> typed, pc |-> "exit", result |-> "ok"]
    ELSE [confirm |-> typed, pc |-> "sync", result |-> "none"]

LandConfirm ==
    /\ UNCHANGED <<created, root, out, tips>>
    /\ pc = "confirm"
    /\ \E typed \in Answers :
        LET next == land_confirm(typed) IN
        /\ confirm' = next.confirm
        /\ pc' = next.pc
        /\ result' = next.result
    /\ UNCHANGED <<repo, cmd, ops, locals>>

\* ------------------------------------------------------------------------
\* stack land: the execution
\* ------------------------------------------------------------------------

\* git checkout main, then git pull origin main
LandSync ==
    /\ UNCHANGED <<created, other_locals, moved, prev>>
    /\ pc = "sync"
    /\ \E outcome \in {"checkout_fail", "pull_fail", "ok"} :
        /\ based' = IF outcome = "ok"
                     THEN based \ Range(children_of(links, trunk))
                     ELSE based
        /\ ops' = IF outcome = "checkout_fail"
                  THEN Append(ops, Op("checkout", trunk, "", FALSE))
                  ELSE ops \o <<Op("checkout", trunk, "", TRUE),
                                Op("pull", trunk, "", outcome = "ok")>>
        /\ head' = IF outcome = "checkout_fail" THEN head ELSE trunk
        /\ pc' = IF outcome # "ok" THEN "exit"
                 ELSE IF stack = <<>> THEN "push" ELSE "merge"
        /\ result' = IF outcome = "ok" THEN "none" ELSE "err"
    /\ idx' = 1
    /\ UNCHANGED <<links, exists, merged, landed, cmd, start_branch, frames, stack, branch>>

\* what git can answer to the steps of the loop for branch b: a branch that
\* does not exist cannot be merged, trunk merged into itself leaves nothing
\* to commit, and the branch that is checked out cannot be deleted
MergeOutcomes(b) ==
    {"merge_fail"}
    \cup (IF b \in exists THEN {"log_fail", "commit_fail"} ELSE {})
    \cup (IF b \in exists /\ b # trunk THEN {"delete_fail"} ELSE {})
    \cup (IF b \in exists /\ b # trunk /\ b # head THEN {"ok"} ELSE {})

\* the operations of one pass of the loop, up to the one that failed
MergeOps(b, outcome, remote_ok, unset_ok) ==
    LET all == <<Op("merge", b, trunk, outcome # "merge_fail"),
                 Op("log", b, "", outcome # "log_fail"),
                 Op("commit", b, trunk, outcome # "commit_fail"),
                 Op("delete", b, "", outcome # "delete_fail"),
                 Op("remote_delete", b, "", remote_ok),
                 Op("unset", b, "", unset_ok)>>
        n == CASE outcome = "merge_fail" -> 1
               [] outcome = "log_fail" -> 2
               [] outcome = "commit_fail" -> 3
               [] outcome = "delete_fail" -> 4
               [] OTHER -> 6
    IN  SubSeq(all, 1, n)

\* a variant of land_merge that goes on with the next branch of the plan
\* when the merge, the log or the commit fails
land_merge_KeepGoing(b, outcome, remote_ok, unset_ok) ==
    [ops |-> ops \o MergeOps(b, outcome, remote_ok, unset_ok),
     landed |-> IF outcome \in {"delete_fail", "ok"} THEN landed \cup {b} ELSE landed,
     exists |-> IF outcome = "ok" THEN exists \ {b} ELSE exists,
     merged |-> IF outcome = "ok" THEN merged \ {b} ELSE merged,
     links |-> IF outcome = "ok" /\ unset_ok THEN unset_parent(links, b) ELSE links,
     idx |-> IF outcome = "delete_fail" THEN idx ELSE idx + 1,
     pc |-> IF outcome = "delete_fail" THEN "exit"
            ELSE IF idx = Len(stack) THEN "push" ELSE "merge",
     result |-> IF outcome = "delete_fail" THEN "err" ELSE "none"]

\* a variant of land_merge in which a failed unset of the ParentLink or a
\* failed remote delete ends land with the error
land_merge_CleanupFails(b, outcome, remote_ok, unset_ok) ==
    LET good == outcome = "ok" /\ remote_ok /\ unset_ok
    IN  [ops |-> ops \o (IF outcome = "ok" /\ ~remote_ok
                         THEN SubSeq(MergeOps(b, outcome, remote_ok, unset_ok), 1, 5)
                         ELSE MergeOps(b, outcome, remote_ok, unset_ok)),
         landed |-> IF outcome \in {"delete_fail", "ok"} THEN landed \cup {b} ELSE landed,
         exists |-> IF outcome = "ok" THEN exists \ {b} ELSE exists,
         merged |-> IF outcome = "ok" THEN merged \ {b} ELSE merged,
         links |-> IF good THEN unset_parent(links, b) ELSE links,
         idx |-> IF good THEN idx + 1 ELSE idx,
         pc |-> IF ~good THEN "exit"
                ELSE IF idx = Len(stack) THEN "push" ELSE "merge",
         result |-> IF good THEN "none" ELSE "err"]

\* a variant of land_merge that pushes trunk after each branch
land_merge_PushEach(b, outcome, remote_ok, unset_ok) ==
    [ops |-> ops \o MergeOps(b, outcome, remote_ok, unset_ok)
                 \o (IF outcome = "ok" THEN <<Op("push", trunk, "", TRUE)>> ELSE <<>>),
     landed |-> IF outcome \in {"delete_fail", "ok"} THEN landed \cup {b} ELSE landed,
     exists |-> IF outcome = "ok" THEN exists \ {b} ELSE exists,
     merged |-> IF outcome = "ok" THEN merged \ {b} ELSE merged,
     links |-> IF outcome = "ok" /\ unset_ok THEN unset_parent(links, b) ELSE links,
     idx |-> IF outcome = "ok" THEN idx + 1 ELSE idx,
     pc |-> IF outcome # "ok" THEN "exit"
            ELSE IF idx = Len(stack) THEN "push" ELSE "merge",
     result |-> IF outcome = "ok" THEN "none" ELSE "err"]

\* a variant of land_merge that points the children of the landed branch to
\* trunk
land_merge_Reparent(b, outcome, remote_ok, unset_ok) ==
    LET kept == IF unset_ok THEN unset_parent(links, b) ELSE links
    IN  [ops |-> ops \o MergeOps(b, outcome, remote_ok, unset_ok),
         landed |-> IF outcome \in {"delete_fail", "ok"} THEN landed \cup {b} ELSE landed,
         exists |-> IF outcome = "ok" THEN exists \ {b} ELSE exists,
         merged |-> IF outcome = "ok" THEN merged \ {b} ELSE merged,
         links |-> IF outcome = "ok"
                   THEN [i \in DOMAIN kept |->
                            IF kept[i][2] = b THEN <<kept[i][1], trunk>> ELSE kept[i]]
                   ELSE links,
         idx |-> IF outcome = "ok" THEN idx + 1 ELSE idx,
         pc |-> IF outcome # "ok" THEN "exit"
                ELSE IF idx = Len(stack) THEN "push" ELSE "merge",
         result |-> IF outcome = "ok" THEN "none" ELSE "err"]

\* one pass of the loop over the plan, for branch b: squash-merge it, read
\* its commit message, commit, delete the branch (each returns its error
\* with `?`), then the two clean-ups whose failure is ignored: the remote
\* delete and the unset of the ParentLink
land_merge(b, outcome, remote_ok, unset_ok) ==
    [ops |-> ops \o MergeOps(b, outcome, remote_ok, unset_ok),
     landed |-> IF outcome \in {"delete_fail", "ok"} THEN landed \cup {b} ELSE landed,
     exists |-> IF outcome = "ok" THEN exists \ {b} ELSE exists,
     merged |-> IF outcome = "ok" THEN merged \ {b} ELSE merged,
     links |-> IF outcome = "ok" /\ unset_ok THEN unset_parent(links, b) ELSE links,
     idx |-> IF outcome = "ok" THEN idx + 1 ELSE idx,
     pc |-> IF outcome # "ok" THEN "exit"
            ELSE IF idx = Len(stack) THEN "push" ELSE "merge",
     result |-> IF outcome = "ok" THEN "none" ELSE "err"]

\* the loop over the plan takes its next branch; the unset of a ParentLink
\* that is not there fails
LandMerge ==
    /\ UNCHANGED <<created, other_locals, moved, prev>>
    /\ pc = "merge"
    /\ idx <= Len(stack)
    /\ LET b == stack[idx] IN
       \E outcome \in MergeOutcomes(b), remote_ok \in BOOLEAN,
          unset_ok \in (IF HasLink(links, b) THEN BOOLEAN ELSE {FALSE}) :
        LET next == land_merge(b, outcome, remote_ok, unset_ok) IN
        /\ ops' = next.ops
        /\ landed' = next.landed
        /\ exists' = next.exists
        /\ merged' = next.merged
        /\ links' = next.links
        /\ idx' = next.idx
        /\ pc' = next.pc
        /\ result' = next.result
        /\ based' = IF outcome \in {"merge_fail", "log_fail", "commit_fail"}
                     THEN based
                     ELSE (based \ Range(children_of(links, trunk))) \ (Names \ next.exists)
    /\ UNCHANGED <<head, cmd, start_branch, frames, stack, branch>>

\* git push origin main
LandPush ==
    /\ UNCHANGED <<created, other_locals, tips>>
    /\ pc = "push"
    /\ \E ok \in BOOLEAN :
        /\ ops' = Append(ops, Op("push", trunk, "", ok))
        /\ result' = IF ok THEN "ok" ELSE "err"
    /\ pc' = "exit"
    /\ UNCHANGED <<repo, cmd, locals>>

\* ------------------------------------------------------------------------
\* stack log
\* ------------------------------------------------------------------------

\* cmd_log up to its loop: the search for the root starts at the current
\* branch
LogStart ==
    /\ UNCHANGED <<created, confirm, tips>>
    /\ pc = "idle"
    /\ pc' = "root"
    /\ cmd' = "log"
    /\ result' = "none"
    /\ ops' = <<>>
    /\ root' = head
    /\ out' = <<>>
    /\ UNCHANGED <<repo, locals>>

\* one pass of the loop of cmd_log: up to the parent, or out of the loop at
\* a branch without ParentLink
LogWalk ==
    /\ UNCHANGED <<created, confirm, tips>>
    /\ pc = "root"
    /\ LET parent == get_parent(links, root)
       IN  IF parent = NoLink
           THEN /\ pc' = "print"
                /\ root' = root
           ELSE /\ pc' = "root"
                /\ root' = parent
    /\ UNCHANGED <<repo, cmd, result, ops, locals, out>>

\* the glyphs of print_tree: the end-branch and the mid-branch connector,
\* and the two pieces a prefix grows by
EndConnector == "+-- "

MidConnector == "|-- "

Blank == "    "

Guide == "|   "

\* print_tree: the line of br (its commit summary follows it under the same
\* prefix), then its children in the order of the child map.  A prefix is
\* the sequence of its pieces.
RECURSIVE print_tree(_, _, _, _, _)
print_tree(br, current, child_map, prefix, is_last) ==
    LET connector == IF prefix = <<>> THEN ""
                     ELSE IF is_last THEN EndConnector ELSE MidConnector
        line == [prefix |-> prefix, connector |-> connector,
                 branch |-> br, marker |-> (br = current)]
        children == IF br \in DOMAIN child_map THEN child_map[br] ELSE <<>>
        new_prefix == IF prefix = <<>> THEN <<>>
                      ELSE IF is_last THEN Append(prefix, Blank)
                      ELSE Append(prefix, Guide)
        below[i \in 0..Len(children)] ==
            IF i = 0 THEN <<>>
            ELSE below[i - 1]
                 \o print_tree(children[i], current, child_map, new_prefix,
                               i = Len(children))
    IN  <<line>> \o below[Len(children)]

\* print_tree(&root, &current, &child_map, "", true); it has no failure path
LogPrint ==
    /\ UNCHANGED <<created, confirm, tips>>
    /\ pc = "print"
    /\ out' = print_tree(root, head, get_child_map(links), <<>>, TRUE)
    /\ pc' = "exit"
    /\ result' = "ok"
    /\ UNCHANGED <<repo, cmd, ops, locals, root>>

\* ------------------------------------------------------------------------
\* The specification
\* ------------------------------------------------------------------------

Next ==
    \/ cmd_new
    \/ cmd_switch
    \/ RemoteMerge
    \/ RestackStart
    \/ AmendStart
    \/ RebaseChild
    \/ RebaseReturn
    \/ RestackRestore
    \/ LandStart
    \/ LandWalk
    \/ LandConfirm
    \/ LandSync
    \/ LandMerge
    \/ LandPush
    \/ LogStart
    \/ LogWalk
    \/ LogPrint
    \/ Exit

Spec == Init /\ [][Next]_vars

\* ------------------------------------------------------------------------
\* What the properties are stated with
\* ------------------------------------------------------------------------

\* the k-th ancestor of b along the ParentLinks; NoLink above a branch
\* without link
RECURSIVE Anc(_, _)
Anc(b, k) == IF k = 0 THEN b ELSE get_parent(links, Anc(b, k - 1))

\* a chain has no more branches than there are branch names
ChainLens == 1..(Cardinality(Names) + 1)

\* the parent chain of b ends after k links: trunk or a branch without link
\* is reached there and not before
ChainEnds(b, k) ==
    /\ Anc(b, k) \in {trunk, NoLink}
    /\ \A j \in 1..(k - 1) : Anc(b, j) \notin {trunk, NoLink}

Eligible(b) == b \in exists /\ b \notin merged

\* the land plan is complete and the operator has not answered yet; the
\* current branch of cmd_land is head until trunk is checked out
PlanReady == cmd = "land" /\ pc = "confirm"

\* ------------------------------------------------------------------------
\* The land plan
\* ------------------------------------------------------------------------

\* C1: when the parent chain of the current branch reaches trunk after k
\* links and each of its k branches exists and is not merged, the land plan
\* is those k branches, the one whose parent is trunk first and the current
\* branch last: the reverse of the order of the walk.
C1_PlanIsChainNearestTrunkFirst ==
    PlanReady =>
        \A k \in ChainLens :
            (/\ ChainEnds(head, k)
             /\ Anc(head, k) = trunk
             /\ \A j \in 0..(k - 1) : Eligible(Anc(head, j)))
            => stack = [i \in 1..k |-> Anc(head, k - i)]

\* a plan of three branches for a chain C -> B -> A -> main, none merged
C1_Witness ==
    /\ PlanReady
    /\ ChainEnds(head, 3)
    /\ Anc(head, 3) = trunk
    /\ \A j \in 0..2 : Eligible(Anc(head, j))
    /\ Len(stack) = 3
    /\ stack[1] = Anc(head, 2)
    /\ stack[3] = head

\* C2: the land plan never holds trunk, whatever the current branch and the
\* ParentLinks are.
C2_PlanNeverHoldsTrunk ==
    PlanReady => trunk \notin Range(stack)

\* C3: every branch of the land plan, the current branch included, exists
\* and is not merged into trunk when the plan is made.
C3_PlanBranchesExistUnmerged ==
    PlanReady => \A i \in DOMAIN stack : Eligible(stack[i])

\* every branch on the chain from the current branch towards trunk is trunk,
\* missing or merged
NothingNeedsLanding ==
    \A k \in 0..Cardinality(Names) :
        (\A j \in 0..k : Anc(head, j) \notin {trunk, NoLink})
        => ~Eligible(Anc(head, k))

\* C4: when nothing needs landing the plan is empty, and land goes no
\* further than reporting it: it does not reach the checkout of trunk.
C4_NothingToLandIsEmptyPlan ==
    /\ (PlanReady /\ NothingNeedsLanding) => stack = <<>>
    /\ (cmd = "land" /\ pc = "sync" /\ NothingNeedsLanding) => stack = <<>>

\* the ancestors of b strictly between b and the end of its chain of k
\* links, nearest first
Ancestors(b, k) == [j \in 1..(k - 1) |-> Anc(b, j)]

\* C5: when the parent chain of the current branch reaches trunk and some
\* ancestor on it is merged or missing, the plan leaves that ancestor out
\* and still holds every ancestor that exists and is not merged, also those
\* beyond the one left out, nearest-to-trunk first, and the current branch
\* last.
C5_MergedAncestorIsSkippedNotStopped ==
    PlanReady =>
        \A k \in ChainLens :
            (/\ ChainEnds(head, k)
             /\ Anc(head, k) = trunk
             /\ \E j \in 1..(k - 1) : ~Eligible(Anc(head, j)))
            => stack = Reverse(<<head>> \o SelectSeq(Ancestors(head, k), Eligible))

\* chain C -> B -> A -> main with B merged or missing: the plan is [A, C]
C5_Witness ==
    /\ PlanReady
    /\ ChainEnds(head, 3)
    /\ Anc(head, 3) = trunk
    /\ ~Eligible(Anc(head, 1))
    /\ Eligible(Anc(head, 2))
    /\ stack = <<Anc(head, 2), head>>

\* ------------------------------------------------------------------------
\* The propagation of restack
\* ------------------------------------------------------------------------

\* the children of p as the ParentLinks record them, in the order of the
\* store
Kids(p) ==
    LET hits == SelectSeq(links, LAMBDA e : e[2] = p)
    IN  [i \in 1..Len(hits) |-> hits[i][1]]

\* b lies on a cycle of ParentLinks
OnCycle(b) == \E k \in ChainLens : Anc(b, k) = b

\* the branches below b
Descendants(b) == {d \in Names : \E k \in ChainLens : Anc(d, k) = b}

\* the pre-order depth-first traversal below b: for each child in recorded
\* order its checkout, its rebase onto b, then the traversal below the child
RECURSIVE PreOrder(_), PreOrderEach(_, _)
PreOrder(b) == PreOrderEach(b, Kids(b))
PreOrderEach(b, kids) ==
    IF kids = <<>>
    THEN <<>>
    ELSE <<Op("checkout", Head(kids), "", TRUE), Op("rebase", Head(kids), b, TRUE)>>
         \o PreOrder(Head(kids))
         \o PreOrderEach(b, Tail(kids))

IsPrefix(s, t) == Len(s) <= Len(t) /\ SubSeq(t, 1, Len(s)) = s

Front(s) == SubSeq(s, 1, Len(s) - 1)

Last(s) == s[Len(s)]

Restacking == cmd = "restack"

\* recursive_rebase returned an error: its call stack was left as it stood
PropagationFailed == Restacking /\ pc = "exit" /\ frames # <<>>

\* C6: when the start branch is on no cycle and nothing fails, the
\* operations of the propagation are, at every moment, the beginning of the
\* pre-order depth-first traversal below the start branch (a checkout of
\* each child followed by its rebase onto its parent, a child's subtree
\* before its next sibling), and when the propagation returns they are the
\* whole of it: every descendant is rebased exactly once, nothing else is
\* touched, and a start branch without children sees no operation.
C6_PropagateIsPreOrder ==
    (Restacking /\ ~OnCycle(start_branch)) =>
        /\ pc = "rebase" => IsPrefix(ops, PreOrder(start_branch))
        /\ pc = "restore" =>
            /\ ops = PreOrder(start_branch)
            /\ {ops[i].b : i \in DOMAIN ops} = Descendants(start_branch)
            /\ \A i, j \in DOMAIN ops :
                (ops[i].op = ops[j].op /\ ops[i].b = ops[j].b) => i = j
            /\ Kids(start_branch) = <<>> => ops = <<>>

\* a start branch with two children, the first with a child of its own:
\* the propagation has returned after three checkouts and three rebases
C6_Witness ==
    /\ Restacking
    /\ pc = "restore"
    /\ Len(Kids(start_branch)) = 2
    /\ Kids(Kids(start_branch)[1]) # <<>>
    /\ Len(ops) = 6
    /\ ops[3].b = Kids(Kids(start_branch)[1])[1]
    /\ ops[5].b = Kids(start_branch)[2]

\* C7: the first failed checkout or rebase of the propagation is its last
\* operation: restack returns the error at once, with no operation for the
\* children of the failing branch, its remaining siblings or the siblings of
\* its ancestors; what was rebased before stays as it is, the operations
\* before the failure being the successful beginning of the traversal and
\* the failing one its next step.
C7_FirstFailureAborts ==
    Restacking =>
        /\ \A i \in DOMAIN ops :
            ~ops[i].ok => (i = Len(ops) /\ pc = "exit" /\ result = "err")
        /\ PropagationFailed =>
            /\ result = "err"
            /\ ops # <<>>
            /\ ~Last(ops).ok
            /\ ~OnCycle(start_branch) =>
                /\ Len(ops) <= Len(PreOrder(start_branch))
                /\ Front(ops) = SubSeq(PreOrder(start_branch), 1, Len(ops) - 1)
                /\ [Last(ops) EXCEPT !.ok = TRUE] = PreOrder(start_branch)[Len(ops)]

\* a failure after a first successful rebase, with branches of the traversal
\* still to come
C7_Witness ==
    /\ PropagationFailed
    /\ ~OnCycle(start_branch)
    /\ Len(ops) >= 3
    /\ Len(ops) < Len(PreOrder(start_branch))
    /\ Top.i < Len(TopChildren)

\* C8, as stated: after a failed propagation the working branch is the
\* branch whose checkout or rebase failed, and restack has issued no
\* checkout back to the start branch.
C8_Original_HeadIsFailedBranch ==
    PropagationFailed =>
        /\ ~Last(ops).ok
        /\ head = Last(ops).b

\* C8, amended: after a failed propagation restack has issued nothing after
\* the failing operation, so no checkout back to the start branch.  When a
\* rebase failed the working branch is the branch whose rebase failed; when
\* a checkout failed the working branch is the one checked out before it:
\* the branch rebased last, or the start branch if it was the first
\* operation.
C8_HeadAfterFailedPropagation ==
    PropagationFailed =>
        /\ ~Last(ops).ok
        /\ result = "err"
        /\ Last(ops).op = "rebase" => head = Last(ops).b
        /\ Last(ops).op = "checkout" =>
            head = IF Len(ops) = 1 THEN start_branch ELSE ops[Len(ops) - 1].b

\* a checkout that failed after another branch had been rebased: the working
\* branch is that other branch
C8_Witness ==
    /\ PropagationFailed
    /\ Len(ops) >= 3
    /\ Last(ops).op = "checkout"
    /\ head = ops[Len(ops) - 1].b
    /\ head # Last(ops).b
    /\ head # start_branch

\* C9: when restack succeeds the working branch is the branch that was
\* current when it started, and the checkout that restored it was issued
\* last, after the whole traversal below the start branch.
C9_SuccessRestoresStart ==
    (Restacking /\ pc = "exit" /\ result = "ok") =>
        /\ head = start_branch
        /\ frames = <<>>
        /\ ops # <<>>
        /\ Last(ops) = Op("checkout", start_branch, "", TRUE)
        /\ \A i \in DOMAIN ops : ops[i].ok
        /\ ~OnCycle(start_branch) => Front(ops) = PreOrder(start_branch)

\* a successful restack that rebased two descendants and came back
C9_Witness ==
    /\ Restacking
    /\ pc = "exit"
    /\ result = "ok"
    /\ Len(ops) = 5
    /\ ops[4].b # start_branch
    /\ head = start_branch

\* ------------------------------------------------------------------------
\* The execution of land
\* ------------------------------------------------------------------------

Landing == cmd = "land"

\* land returned the error of the squash-merge or of the commit of the
\* branch at position idx of the plan
MergeOrCommitFailed ==
    /\ Landing
    /\ pc = "exit"
    /\ ops # <<>>
    /\ Last(ops).op \in {"merge", "commit"}
    /\ ~Last(ops).ok

Done(name, b) == \E i \in DOMAIN ops : ops[i].op = name /\ ops[i].b = b /\ ops[i].ok

Tried(name, b) == \E i \in DOMAIN ops : ops[i].op = name /\ ops[i].b = b

\* the branches after position idx have seen no operation, trunk is not
\* pushed, and the branches before position idx are merged, committed and
\* deleted
AbortLeaves ==
    /\ result = "err"
    /\ \A j \in 1..(idx - 1) :
        /\ Done("merge", stack[j])
        /\ Done("commit", stack[j])
        /\ Done("delete", stack[j])
        /\ stack[j] \in landed
        /\ stack[j] \notin exists
    /\ \A j \in (idx + 1)..Len(stack) :
        /\ \A i \in DOMAIN ops : ops[i].b # stack[j]
        /\ stack[j] \in exists
        /\ HasLink(links, stack[j])
    /\ \A i \in DOMAIN ops : ops[i].op # "push"

\* C10, as stated: when the merge or the commit of the i-th branch of the
\* plan fails, every branch before it is merged, committed, deleted and has
\* its ParentLink removed, every branch after it is untouched, and trunk is
\* not pushed.
C10_Original_EarlierLinksRemoved ==
    MergeOrCommitFailed =>
        /\ AbortLeaves
        /\ \A j \in 1..(idx - 1) : ~HasLink(links, stack[j])

\* C10, amended: a failed merge or commit is the last operation of land,
\* which returns the error.  Every branch before the failing one is merged,
\* committed and deleted, and the unset of its ParentLink was tried: the
\* link is gone unless that unset failed, which land ignores.  Every branch
\* after the failing one has seen no operation, exists and keeps its link;
\* trunk is not pushed and nothing landed is taken back.
C10_FailedMergeAbortsPlan ==
    /\ Landing =>
        \A i \in DOMAIN ops :
            (ops[i].op \in {"merge", "commit"} /\ ~ops[i].ok)
            => (i = Len(ops) /\ pc = "exit" /\ result = "err")
    /\ MergeOrCommitFailed =>
        /\ AbortLeaves
        /\ Last(ops).b = stack[idx]
        /\ \A j \in 1..(idx - 1) :
            /\ Tried("unset", stack[j])
            /\ Done("unset", stack[j]) => ~HasLink(links, stack[j])

\* the commit of the second of three branches failed: the first is landed,
\* the third untouched
C10_Witness ==
    /\ MergeOrCommitFailed
    /\ Last(ops).op = "commit"
    /\ Len(stack) = 3
    /\ idx = 2
    /\ stack[1] \in landed
    /\ stack[3] \in exists

\* C11: a failed remote delete or a failed unset of the ParentLink never
\* ends land: whatever their results, the remote delete is followed by the
\* unset of the same branch, and the unset by the merge of the next branch
\* of the plan or, after the last branch, by the push of trunk, with no
\* error returned for them.
C11_CleanupFailureIsSwallowed ==
    Landing =>
        \A i \in DOMAIN ops :
            /\ ops[i].op = "remote_delete" =>
                /\ i < Len(ops)
                /\ ops[i + 1].op = "unset"
                /\ ops[i + 1].b = ops[i].b
            /\ ops[i].op = "unset" =>
                IF i = Len(ops)
                THEN /\ result = "none"
                     /\ pc = IF idx > Len(stack) THEN "push" ELSE "merge"
                     /\ ops[i].b = stack[idx - 1]
                ELSE /\ ops[i + 1].op \in {"merge", "push"}
                     /\ ops[i + 1].op = "merge" =>
                            \E j \in 2..Len(stack) :
                                ops[i].b = stack[j - 1] /\ ops[i + 1].b = stack[j]
                     /\ ops[i + 1].op = "push" => ops[i].b = stack[Len(stack)]

\* a land of two branches that succeeded although the remote delete and the
\* unset of the first branch failed, its ParentLink still in the store
C11_Witness ==
    /\ Landing
    /\ pc = "exit"
    /\ result = "ok"
    /\ Len(stack) = 2
    /\ \E i \in DOMAIN ops :
        ops[i].op = "remote_delete" /\ ops[i].b = stack[1] /\ ~ops[i].ok
    /\ \E i \in DOMAIN ops :
        ops[i].op = "unset" /\ ops[i].b = stack[1] /\ ~ops[i].ok
    /\ HasLink(links, stack[1])
    /\ Last(ops) = Op("push", trunk, "", TRUE)

\* the operations of a confirmed land of plan that nothing ends early
RECURSIVE LandOpsOf(_)
LandOpsOf(plan) ==
    IF plan = <<>>
    THEN <<>>
    ELSE <<Op("merge", Head(plan), trunk, TRUE),
           Op("log", Head(plan), "", TRUE),
           Op("commit", Head(plan), trunk, TRUE),
           Op("delete", Head(plan), "", TRUE),
           Op("remote_delete", Head(plan), "", TRUE),
           Op("unset", Head(plan), "", TRUE)>>
         \o LandOpsOf(Tail(plan))

WholeLand(plan) ==
    <<Op("checkout", trunk, "", TRUE), Op("pull", trunk, "", TRUE)>>
    \o LandOpsOf(plan)
    \o <<Op("push", trunk, "", TRUE)>>

\* the operations issued, whatever their results
Issued == [i \in DOMAIN ops |-> [ops[i] EXCEPT !.ok = TRUE]]

\* C12: the operations of a confirmed land are, at every moment, the
\* beginning of: checkout of trunk, pull of trunk, then for each branch in
\* plan order squash-merge, (read of the commit message,) commit, local
\* delete, remote delete, unset of the link, and last one push of trunk.  A
\* land that succeeds has issued all of them; trunk is pushed at most once
\* and last, and no merge comes before the checkout and the pull succeeded.
C12_LandOrder ==
    Landing =>
        /\ IsPrefix(Issued, WholeLand(stack))
        /\ (pc = "exit" /\ result = "ok" /\ ops # <<>>) => Issued = WholeLand(stack)
        /\ \A i \in DOMAIN ops :
            /\ ops[i].op = "push" => i = Len(ops)
            /\ ops[i].op = "merge" => (i > 2 /\ ops[1].ok /\ ops[2].ok)

\* a land of three branches that succeeded
C12_Witness ==
    /\ Landing
    /\ pc = "exit"
    /\ result = "ok"
    /\ Len(stack) = 3
    /\ Len(ops) = 21
    /\ Last(ops).op = "push"

\* ------------------------------------------------------------------------
\* The tree of log
\* ------------------------------------------------------------------------

\* the branches below b in pre-order, children in recorded order
RECURSIVE BranchesBelow(_), BranchesBelowEach(_)
BranchesBelow(b) == BranchesBelowEach(Kids(b))
BranchesBelowEach(kids) ==
    IF kids = <<>>
    THEN <<>>
    ELSE <<Head(kids)>> \o BranchesBelow(Head(kids)) \o BranchesBelowEach(Tail(kids))

\* the line of out that prints branch b
LineOf(b) == CHOOSE i \in DOMAIN out : out[i].branch = b

\* C13: log prints the root first and without connector, then the branches
\* below it in pre-order, children in recorded order; every branch but the
\* root is printed with the end-branch connector when it is the last child
\* of its parent and with the mid-branch connector otherwise, under a prefix
\* longer than its parent's.
C13_TreeConnectors ==
    (cmd = "log" /\ pc = "exit") =>
        /\ [i \in DOMAIN out |-> out[i].branch] = <<root>> \o BranchesBelow(root)
        /\ out[1].connector = ""
        /\ \A i \in 2..Len(out) :
            LET b == out[i].branch
                siblings == Kids(get_parent(links, b))
            IN  /\ out[i].connector =
                        IF b = siblings[Len(siblings)] THEN EndConnector ELSE MidConnector
                /\ Len(out[i].prefix) > Len(out[LineOf(get_parent(links, b))].prefix)

\* ------------------------------------------------------------------------
\* The child map
\* ------------------------------------------------------------------------

\* the children the map built from the store holds for p
ChildrenInMap(p) ==
    LET map == get_child_map(links)
    IN  IF p \in DOMAIN map THEN map[p] ELSE <<>>

\* the place of the ParentLink of b in the enumeration of the store
LinkPos(b) == CHOOSE i \in DOMAIN links : links[i][1] = b

\* C14: the child map built from the ParentLinks holds, for every parent p,
\* exactly the branches whose link value is p, each once, in the order the
\* links are enumerated; a branch without children has no children in it, and
\* a store without links gives the empty map.
C14_ChildMap ==
    /\ \A p \in Names \cup {trunk} :
        LET kids == ChildrenInMap(p)
        IN  /\ Range(kids) = {b \in Names : get_parent(links, b) = p}
            /\ \A i, j \in DOMAIN kids :
                i < j => LinkPos(kids[i]) < LinkPos(kids[j])
    /\ DOMAIN get_child_map(links) = {get_parent(links, b) : b \in Names} \ {NoLink}
    /\ links = <<>> => get_child_map(links) = <<>>

\* a restack has rebased the second child of a parent with two children,
\* while another parent has a child and a branch has none
C14_Witness ==
    /\ cmd = "restack"
    /\ \E p, q \in Names \cup {trunk} :
        /\ p # q
        /\ Len(ChildrenInMap(p)) = 2
        /\ Len(ChildrenInMap(q)) = 1
        /\ Done("rebase", ChildrenInMap(p)[2])
    /\ \E b \in exists : ChildrenInMap(b) = <<>>

\* ------------------------------------------------------------------------
\* restack twice
\* ------------------------------------------------------------------------

\* C15: in a restack that runs right after a restack that succeeded, so from
\* the same branch and with no commit in between, every rebase finds its
\* branch on the tip of its parent and succeeds, no branch tip is changed,
\* and the run ends with success on the start branch; it fails only where
\* git refuses a checkout.
C15_RestackTwiceMovesNothing ==
    (cmd = "restack" /\ prev # NoRun) =>
        /\ start_branch = prev.start
        /\ moved = {}
        /\ \A i \in DOMAIN ops : ops[i].op = "rebase" => (ops[i].ok /\ ops[i].b \in based)
        /\ result = "err" => (Last(ops).op = "checkout" /\ ~Last(ops).ok)
        /\ (pc = "exit" /\ result # "err") => (result = "ok" /\ head = start_branch)

\* the second restack has ended with success after two rebases, and the
\* first one had changed a tip
C15_Witness ==
    /\ cmd = "restack"
    /\ pc = "exit"
    /\ result = "ok"
    /\ prev.start = start_branch
    /\ prev.moved
    /\ \E i, j \in DOMAIN ops : i < j /\ ops[i].op = "rebase" /\ ops[j].op = "rebase"

\* ------------------------------------------------------------------------
\* The walks up the parent chain
\* ------------------------------------------------------------------------

\* the walk of cmd_land stops at a branch whose parent is one of these, the
\* search of cmd_log at a branch whose parent is the other
LandStops == {trunk, NoLink}

LogStops == {NoLink}

\* the parent chain of b leaves the links: it runs into no cycle
Acyclic(b) == \E k \in ChainLens : Anc(b, k) = NoLink

\* the number of passes a walk from b makes until it stops
Passes(b, stops) ==
    CHOOSE k \in ChainLens :
        /\ Anc(b, k) \in stops
        /\ \A j \in 1..(k - 1) : Anc(b, j) \notin stops

\* where the walks are: on an acyclic chain the walk of land and the search
\* of log stand on the chain of the current branch, as many links above it
\* as they have made passes, and the next pass of land can be made and ends
\* the walk or leaves where it stands; on a chain that runs into a cycle land
\* does not get out of its walk
WalkOnChain ==
    /\ (cmd = "land" /\ pc = "walk" /\ Acyclic(head)) =>
        /\ branch = Anc(head, Passes(head, LandStops) - Passes(branch, LandStops))
        /\ Len(land_walk(stack, branch).stack) <= MaxPlan
        /\ land_walk(stack, branch).pc = "walk" => land_walk(stack, branch).branch # branch
    /\ (cmd = "log" /\ pc = "root" /\ Acyclic(head)) =>
        root = Anc(head, Passes(head, LogStops) - Passes(root, LogStops))
    /\ (cmd = "land" /\ ~Acyclic(head)) => pc = "walk"
    /\ (cmd = "land" /\ pc = "confirm") => get_parent(links, branch) \in LandStops
    /\ (cmd = "log" /\ pc = "print") => get_parent(links, root) = NoLink

\* a pass of a walk on an acyclic chain: the last one ends the walk where it
\* stands, every other one moves one link up and leaves one pass less
WalkStep ==
    /\ (cmd = "land" /\ pc = "walk" /\ Acyclic(head)) =>
        IF Passes(branch, LandStops) = 1
        THEN pc' = "confirm" /\ branch' = branch
        ELSE /\ pc' = "walk"
             /\ branch' = get_parent(links, branch)
             /\ Passes(branch', LandStops) = Passes(branch, LandStops) - 1
    /\ (cmd = "log" /\ pc = "root" /\ Acyclic(head)) =>
        IF Passes(root, LogStops) = 1
        THEN pc' = "print" /\ root' = root
        ELSE /\ pc' = "root"
             /\ root' = get_parent(links, root)
             /\ Passes(root', LogStops) = Passes(root, LogStops) - 1

\* C16: when the parent chain of the current branch runs into no cycle, the
\* walk of land and the root search of log move one link up the chain with
\* every pass, so visit each of its branches once, and end after as many
\* passes as the chain has links up to trunk or to a branch without
\* ParentLink (land), or up to a branch without ParentLink (log); when the
\* chain runs into a cycle, land never gets out of its walk.
C16_WalksEndOnAcyclicChains == []WalkOnChain /\ [][WalkStep]_vars

\* land has ended its walk after three passes up a chain of three branches
C16_Witness ==
    /\ cmd = "land"
    /\ pc = "confirm"
    /\ Passes(head, LandStops) = 3
    /\ branch = Anc(head, 2)
    /\ Len(stack) = 3

\* ------------------------------------------------------------------------
\* The end of the propagation
\* ------------------------------------------------------------------------

\* a command that runs recursive_rebase from start_branch
Propagates == cmd \in {"restack", "amend"}

\* the operations of recursive_rebase among those of the command
PropOps == IF cmd = "amend" THEN Tail(ops) ELSE ops

\* the steps recursive_rebase has left on a start branch that is on no
\* cycle: two operations for each descendant not yet rebased, and a return
\* for each call that is open
StepsLeft == Len(PreOrder(start_branch)) - Len(PropOps) + Len(frames)

\* where the propagation is: from a start branch on no cycle it has done a
\* beginning of the finite traversal below it, and its next child can be
\* taken; from a start branch on a cycle the outermost call does not return,
\* so the command ends with an error or not at all
PropagationOnTree ==
    /\ (Propagates /\ pc = "rebase" /\ ~OnCycle(start_branch)) =>
        /\ IsPrefix(PropOps, PreOrder(start_branch))
        /\ StepsLeft >= 1
        /\ Top.i <= Len(TopChildren) => Len(frames) < MaxDepth
    /\ (Propagates /\ pc = "rebase" /\ OnCycle(start_branch)) =>
        /\ frames # <<>>
        /\ Len(frames) = 1 => Top.i <= Len(TopChildren)
    /\ (Propagates /\ pc # "rebase" /\ OnCycle(start_branch)) =>
        (pc = "exit" /\ result = "err")

\* a step of the propagation from a start branch on no cycle: it fails and
\* ends the command, or it leaves one step less, and it returns to
\* cmd_restack when no step is left
PropagationStep ==
    (Propagates /\ pc = "rebase" /\ ~OnCycle(start_branch)) =>
        IF pc' = "exit"
        THEN result' = "err"
        ELSE /\ pc' \in {"rebase", "restore"}
             /\ StepsLeft' = StepsLeft - 1
             /\ pc' = "restore" <=> StepsLeft' = 0

\* C17: from a start branch that is on no cycle of ParentLinks the
\* propagation ends: every step of it that does not fail leaves one step less
\* of the finite traversal below the start branch, and it returns when none
\* is left; from a start branch on a cycle it does not return: the command
\* fails at a checkout or a rebase, or stays in the propagation.
C17_PropagationEndsOffCycles == []PropagationOnTree /\ [][PropagationStep]_vars

\* the propagation has returned from a start branch with a grandchild, after
\* six operations and with every call closed
C17_Witness ==
    /\ cmd = "restack"
    /\ pc = "restore"
    /\ ~OnCycle(start_branch)
    /\ frames = <<>>
    /\ Len(ops) = 6
    /\ \E b \in Names : Anc(b, 2) = start_branch

\* ------------------------------------------------------------------------
\* The ParentLinks land leaves
\* ------------------------------------------------------------------------

\* a step of land changes the store at most by taking out the link of one
\* branch of the plan: every other entry keeps its value and its place
LandOnlyUnsetsPlan ==
    Landing =>
        /\ links' # links =>
            \E b \in Range(stack) : links' = SelectSeq(links, LAMBDA e : e[1] # b)
        /\ \A c \in Names \ Range(stack) :
            get_parent(links', c) = get_parent(links, c)

\* after a land that succeeded every branch of the plan is deleted, and a
\* branch outside the plan whose link named one of them has that link still
OrphansKeepLink ==
    (Landing /\ pc = "exit" /\ result = "ok" /\ ops # <<>>) =>
        /\ \A b \in Range(stack) : b \notin exists
        /\ \A c \in Names \ Range(stack) :
            Done("delete", get_parent(links, c)) =>
                /\ HasLink(links, c)
                /\ get_parent(links, c) \in Range(stack)
                /\ get_parent(links, c) \notin exists

\* C18: land changes the ParentLinks only by removing links of branches of
\* the plan; the link of every branch outside the plan keeps its value, also
\* that of a child of a landed branch, which after a successful land names a
\* parent that is deleted.
C18_LandRemovesOnlyPlanLinks == [][LandOnlyUnsetsPlan]_vars /\ []OrphansKeepLink

\* a land of two branches has succeeded and removed their links, and a
\* branch outside the plan still names the deleted current branch as parent
C18_Witness ==
    /\ Landing
    /\ pc = "exit"
    /\ result = "ok"
    /\ Len(stack) = 2
    /\ \A i \in DOMAIN stack : ~HasLink(links, stack[i])
    /\ \E c \in exists \ Range(stack) :
        /\ get_parent(links, c) = stack[2]
        /\ stack[2] \notin exists

\* ------------------------------------------------------------------------
\* The prompt of land
\* ------------------------------------------------------------------------

\* the answers that confirm
Yes == {"y", "Y"}

\* land has ended after an answer that does not confirm: it returned Ok and
\* has issued no git operation
DeclinedLandDidNothing ==
    (Landing /\ pc = "exit" /\ stack # <<>> /\ confirm \notin Yes) =>
        /\ result = "ok"
        /\ ops = <<>>

\* the step that reads the answer goes on to the checkout of trunk for y or
\* Y only, and every step of a land that has issued no git operation and
\* issues none leaves the working branch, the branches and the ParentLinks
\* as they are
DeclineChangesNothing ==
    /\ (Landing /\ pc = "confirm" /\ stack # <<>>) =>
        IF confirm' \in Yes
        THEN pc' = "sync"
        ELSE pc' = "exit" /\ result' = "ok" /\ ops' = <<>>
    /\ (Landing /\ ops = <<>> /\ ops' = <<>>) => UNCHANGED repo

\* C19: when the answer at the prompt of land is not y or Y, land returns Ok
\* without any git operation (no checkout of trunk, pull, merge, commit,
\* delete, unset or push): the working branch, the branches and the
\* ParentLinks stay as they were.
C19_DeclinedLandChangesNothing ==
    []DeclinedLandDidNothing /\ [][DeclineChangesNothing]_vars

\* a plan of two branches was shown and the operator pressed Enter
C19_Witness ==
    /\ Landing
    /\ pc = "exit"
    /\ result = "ok"
    /\ Len(stack) = 2
    /\ confirm = ""
    /\ ops = <<>>
    /\ \A i \in DOMAIN stack : stack[i] \in exists /\ HasLink(links, stack[i])

====
